---- MODULE Spec2Model ----
(***************************************************************************)
(* A model of main.py: the configuration of a 2D incompressible-flow run,  *)
(* the generation of the obstacle swarm, the construction of the fields,   *)
(* the time-step operator `step` and the run loop with its output.         *)
(*                                                                         *)
(* Python floats are IEEE-754 binary64 numbers.  They are modelled         *)
(* exactly: a float is a 53-bit mantissa (an arbitrary-precision natural   *)
(* held as a little-endian sequence of limbs) and a binary exponent, and   *)
(* each arithmetic operation computes the exact result and rounds it to    *)
(* the nearest float, ties to even.  Every value of this program is a      *)
(* non-negative normal number, so sign, subnormals, infinities and NaN     *)
(* are left out.                                                           *)
(*                                                                         *)
(* The fields (velocity, pressure, inflow, ...) are objects of the field   *)
(* library.  The model keeps the heap of these objects: each library call  *)
(* allocates a new object whose record names the operation and its         *)
(* arguments (references to other objects, and numbers).  The numerical    *)
(* kernels themselves are the library's and are not interpreted.           *)
(***************************************************************************)
EXTENDS Integers, Sequences, FiniteSets, TLC

\* ------------------------------------------------------------------------
\* Arbitrary-precision naturals: little-endian limbs, no leading zero limb.
\* ------------------------------------------------------------------------

Radix == 2^14

Min(a, b) == IF a <= b THEN a ELSE b

RECURSIVE BitLenNat(_)
BitLenNat(n) == IF n = 0 THEN 0 ELSE 1 + BitLenNat(n \div 2)

LimbBits == BitLenNat(Radix - 1)

RECURSIVE BigTrim(_)
BigTrim(a) ==
    IF a = <<>> THEN <<>>
    ELSE IF a[Len(a)] = 0 THEN BigTrim(SubSeq(a, 1, Len(a) - 1))
    ELSE a

RECURSIVE BigOfNat(_)
BigOfNat(n) == IF n = 0 THEN <<>> ELSE <<n % Radix>> \o BigOfNat(n \div Radix)

\* Only for values below 2^31.
RECURSIVE NatOfBig(_)
NatOfBig(a) == IF a = <<>> THEN 0 ELSE Head(a) + Radix * NatOfBig(Tail(a))

Limb(a, i) == IF i <= Len(a) THEN a[i] ELSE 0

RECURSIVE BigAddFrom(_, _, _, _)
BigAddFrom(a, b, i, carry) ==
    IF i > Len(a) /\ i > Len(b)
    THEN IF carry = 0 THEN <<>> ELSE <<carry>>
    ELSE LET x == Limb(a, i) + Limb(b, i) + carry
         IN  <<x % Radix>> \o BigAddFrom(a, b, i + 1, x \div Radix)

BigAdd(a, b) == BigAddFrom(a, b, 1, 0)

\* a - b for a >= b.
RECURSIVE BigSubFrom(_, _, _, _)
BigSubFrom(a, b, i, borrow) ==
    IF i > Len(a) THEN <<>>
    ELSE LET x == Limb(a, i) - Limb(b, i) - borrow
         IN  IF x < 0
             THEN <<x + Radix>> \o BigSubFrom(a, b, i + 1, 1)
             ELSE <<x>> \o BigSubFrom(a, b, i + 1, 0)

BigSub(a, b) == BigTrim(BigSubFrom(a, b, 1, 0))

\* -1, 0 or 1 as a < b, a = b or a > b.
RECURSIVE BigCmpFrom(_, _, _)
BigCmpFrom(a, b, i) ==
    IF i = 0 THEN 0
    ELSE IF a[i] < b[i] THEN -1
    ELSE IF a[i] > b[i] THEN 1
    ELSE BigCmpFrom(a, b, i - 1)

BigCmp(a, b) ==
    IF Len(a) < Len(b) THEN -1
    ELSE IF Len(a) > Len(b) THEN 1
    ELSE BigCmpFrom(a, b, Len(a))

\* a * k for a small natural k (k < 2^16).
RECURSIVE BigMulFrom(_, _, _, _)
BigMulFrom(a, k, i, carry) ==
    IF i > Len(a) THEN BigOfNat(carry)
    ELSE LET x == a[i] * k + carry
         IN  <<x % Radix>> \o BigMulFrom(a, k, i + 1, x \div Radix)

BigMulSmall(a, k) == IF k = 0 THEN <<>> ELSE BigMulFrom(a, k, 1, 0)

\* Quotient and remainder of a by a small positive k (k < 2^16): long division
\* from the most significant limb, q the quotient limbs found so far.
RECURSIVE BigDivFrom(_, _, _, _, _)
BigDivFrom(a, k, i, rem, q) ==
    IF i = 0 THEN [q |-> BigTrim(q), r |-> rem]
    ELSE BigDivFrom(a, k, i - 1, (rem * Radix + a[i]) % k,
                    <<(rem * Radix + a[i]) \div k>> \o q)

BigDivSmall(a, k) == BigDivFrom(a, k, Len(a), 0, <<>>)

BigBitLen(a) ==
    IF a = <<>> THEN 0 ELSE LimbBits * (Len(a) - 1) + BitLenNat(a[Len(a)])

BigIsOdd(a) == a # <<>> /\ a[1] % 2 = 1

\* a * 2^s.
BigShl(a, s) ==
    IF a = <<>> THEN <<>>
    ELSE [i \in 1..(s \div LimbBits) |-> 0] \o BigMulSmall(a, 2^(s % LimbBits))

\* floor(a / 2^s).
BigShr(a, s) ==
    IF s \div LimbBits >= Len(a) THEN <<>>
    ELSE BigDivSmall(SubSeq(a, s \div LimbBits + 1, Len(a)), 2^(s % LimbBits)).q

\* a / 2^s rounded to the nearest natural, ties to even.
BigShrRound(a, s) ==
    IF s = 0 THEN a
    ELSE LET q    == BigShr(a, s)
             rem  == BigSub(a, BigShl(q, s))
             c    == BigCmp(rem, BigShl(<<1>>, s - 1))
         IN  IF c > 0 \/ (c = 0 /\ BigIsOdd(q)) THEN BigAdd(q, <<1>>) ELSE q

\* ------------------------------------------------------------------------
\* IEEE-754 binary64 (Python float), non-negative normal numbers:
\* [m |-> mantissa, e |-> exponent] is m * 2^e, m of exactly MantBits bits
\* (or m = <<>>, e = 0 for zero), so equal numbers are equal records.
\* ------------------------------------------------------------------------

MantBits == 53

\* Working precision of a quotient before rounding.
GuardBits == MantBits + 2 * LimbBits

\* The float nearest to m * 2^e (m a natural of any length).
FRound(m, e) ==
    LET n == BigBitLen(m)
    IN  IF n = 0 THEN [m |-> <<>>, e |-> 0]
        ELSE IF n <= MantBits
        THEN [m |-> BigShl(m, MantBits - n), e |-> e - (MantBits - n)]
        ELSE LET s == n - MantBits
                 q == BigShrRound(m, s)
             IN  IF BigBitLen(q) > MantBits
                 THEN [m |-> BigShr(q, 1), e |-> e + s + 1]
                 ELSE [m |-> q, e |-> e + s]

FOfNat(n) == FRound(BigOfNat(n), 0)

\* The float nearest to the exact quotient (m * 2^e) / k, k a small positive
\* natural: the quotient is taken to GuardBits more bits than m has, with a
\* sticky bit for a nonzero remainder.
FRoundQuot(m, e, k) ==
    LET d == BigDivSmall(BigShl(m, GuardBits), k)
    IN  FRound(BigAdd(BigMulSmall(d.q, 2), IF d.r = 0 THEN <<>> ELSE <<1>>),
               e - GuardBits - 1)

\* A decimal literal p/q (0.05 is 5/100), and the true division int / int.
FOfRatio(p, q) == FRoundQuot(BigOfNat(p), 0, q)

\* float / int, int * float: the int converts exactly.
FDivNat(x, k) == FRoundQuot(x.m, x.e, k)

FMulNat(k, x) == FRound(BigMulSmall(x.m, k), x.e)

FAdd(x, y) ==
    LET e == Min(x.e, y.e)
    IN  FRound(BigAdd(BigShl(x.m, x.e - e), BigShl(y.m, y.e - e)), e)

\* x - y for x >= y.
FSub(x, y) ==
    LET e == Min(x.e, y.e)
    IN  FRound(BigSub(BigShl(x.m, x.e - e), BigShl(y.m, y.e - e)), e)

FCmp(x, y) ==
    LET e == Min(x.e, y.e)
    IN  BigCmp(BigShl(x.m, x.e - e), BigShl(y.m, y.e - e))

FLess(x, y) == FCmp(x, y) < 0

FLeq(x, y) == FCmp(x, y) <= 0

FZero == FOfNat(0)

\* ------------------------------------------------------------------------
\* Parameter definition (main.py lines 13-28)
\* ------------------------------------------------------------------------

length_x == 40

length_y == FOfRatio(32, 10)

resolution == <<4000, 320>>

dx == FOfRatio(length_x, resolution[1])

dy == FDivNat(length_y, resolution[2])

\* The values the script gives swarm_num_x, swarm_num_y and total_time; the
\* model holds the three as variables so that other values can be run.
SWARM_NUM_X == 5

SWARM_NUM_Y == 5

TOTAL_TIME == 50

swarm_member_rad == FOfRatio(16, 100)

inflow_freq == 1

inflow_amplitude == 30

viscosity == FOfRatio(1, 1000)

dt == FOfRatio(5, 100)

\* Bounds of the model.
MaxSwarmNum == 5

MaxTotalTime == 50

MaxClock == 1

VARIABLES
    pc,                 \* position of the script
    swarm_num_x, swarm_num_y, total_time,
    xs, ys,             \* the arrays the two np.linspace calls returned
    x_iter, y_iter,     \* positions of the two for loops in xs and ys
    swarm,              \* list of obstacles
    heap,               \* field objects of the library, by reference 1..Len(heap)
    velocity, pressure, inflow,     \* references into heap (0: unbound)
    pressure_box,       \* the Box of line 72 (<<>>: unbound)
    folder_name,        \* the timestamp of line 91
    dirs, files,        \* the directories and files written under ./run_*
    configuration,      \* lines of configuration.txt
    time_step,          \* the loop variable of line 109
    range_next,         \* next value of range(total_time)
    frame,              \* locals of the running call of step
    lib_calls,          \* library calls made by the latest call of step
    events              \* step calls, step returns and writes of the run, in order

vars == <<pc, swarm_num_x, swarm_num_y, total_time, xs, ys, x_iter, y_iter, swarm,
          heap, velocity, pressure, inflow, pressure_box, folder_name, dirs, files,
          configuration, time_step, range_next, frame, lib_calls, events>>

config_vars == <<swarm_num_x, swarm_num_y, total_time>>

swarm_vars == <<xs, ys, x_iter, y_iter, swarm>>

field_vars == <<heap, velocity, pressure, inflow, pressure_box>>

fs_vars == <<folder_name, dirs, files, configuration>>

loop_vars == <<time_step, range_next, frame, lib_calls, events>>

\* ------------------------------------------------------------------------
\* Container and swarm generation (lines 31-38)
\* ------------------------------------------------------------------------

\* Box['x,y', 0:length_x, 0:length_y]
box == [lower |-> <<FOfNat(0), FOfNat(0)>>, upper |-> <<FOfNat(length_x), length_y>>]

\* numpy.linspace(start, stop, num) with endpoint=True, for floats start <= stop:
\* arange(num) * step + start with step = (stop - start) / (num - 1), and the
\* last sample set to stop.
LinSpace(start, stop, num) ==
    LET div   == num - 1
        delta == FSub(stop, start)
        step  == FDivNat(delta, div)
        y(n)  == IF div > 0
                 THEN IF step = FZero THEN FZero ELSE FMulNat(n, step)
                 ELSE FMulNat(n, delta)
    IN  [k \in 1..num |->
            IF num > 1 /\ k = num THEN stop ELSE FAdd(y(k - 1), start)]

\* np.linspace(35, 38, swarm_num_x)
SwarmXs == LinSpace(FOfNat(35), FOfNat(38), swarm_num_x)

\* length_y / (swarm_num_y * 2)
SwarmYStart == FDivNat(length_y, swarm_num_y * 2)

\* Mutant of SwarmYStop: the last row of obstacles on the upper wall (no
\* half-spacing margin).
SwarmYStopAtWall == length_y

\* length_y - length_y / (swarm_num_y * 2)
SwarmYStop == FSub(length_y, FDivNat(length_y, swarm_num_y * 2))

\* np.linspace(length_y / (swarm_num_y * 2), length_y - length_y / (swarm_num_y * 2), swarm_num_y)
SwarmYs == LinSpace(SwarmYStart, SwarmYStop, swarm_num_y)

\* Obstacle(Sphere(x=i, y=j, radius=swarm_member_rad))
Obstacle(x, y) == [x |-> x, y |-> y, radius |-> swarm_member_rad]

\* Line 34 and the evaluation of the outer loop's iterable (line 36).
SwarmBegin ==
    /\ pc = "start"
    /\ swarm' = <<>>
    /\ xs' = SwarmXs
    /\ x_iter' = 0
    /\ pc' = "swarm_x"
    /\ UNCHANGED <<config_vars, ys, y_iter, field_vars, fs_vars, loop_vars>>

\* Line 36: the outer loop takes its next i and evaluates the inner loop's
\* iterable (line 37), or ends.
SwarmOuter ==
    /\ pc = "swarm_x"
    /\ IF x_iter < Len(xs)
       THEN /\ x_iter' = x_iter + 1
            /\ ys' = SwarmYs
            /\ y_iter' = 0
            /\ pc' = "swarm_y"
       ELSE /\ pc' = "fields"
            /\ UNCHANGED <<x_iter, ys, y_iter>>
    /\ UNCHANGED <<config_vars, xs, swarm, field_vars, fs_vars, loop_vars>>

\* Lines 37-38: the inner loop takes its next j and appends an obstacle, or ends.
SwarmInner ==
    /\ pc = "swarm_y"
    /\ IF y_iter < Len(ys)
       THEN /\ y_iter' = y_iter + 1
            /\ swarm' = Append(swarm, Obstacle(xs[x_iter], ys[y_iter + 1]))
            /\ pc' = pc
       ELSE /\ pc' = "swarm_x"
            /\ UNCHANGED <<y_iter, swarm>>
    /\ UNCHANGED <<config_vars, xs, ys, x_iter, field_vars, fs_vars, loop_vars>>

\* The state before line 34, for the given configuration.
InitWith(nx, ny, tt) ==
    /\ pc = "start"
    /\ swarm_num_x = nx /\ swarm_num_y = ny /\ total_time = tt
    /\ xs = <<>> /\ ys = <<>> /\ x_iter = 0 /\ y_iter = 0
    /\ swarm = <<>>
    /\ heap = <<>>
    /\ velocity = 0 /\ pressure = 0 /\ inflow = 0
    /\ pressure_box = <<>>
    /\ folder_name = 0
    /\ dirs = {} /\ files = {}
    /\ configuration = <<>>
    /\ time_step = 0 /\ range_next = 0
    /\ frame = <<>>
    /\ lib_calls = <<>>
    /\ events = <<>>

\* The swarm generation alone, for every swarm size up to MaxSwarmNum.
InitSwarm ==
    \E nx \in 1..MaxSwarmNum, ny \in 1..MaxSwarmNum : InitWith(nx, ny, TOTAL_TIME)

NextSwarm == SwarmBegin \/ SwarmOuter \/ SwarmInner

SpecSwarm == InitSwarm /\ [][NextSwarm]_vars

\* ------------------------------------------------------------------------
\* Field objects and the library calls that make them
\* ------------------------------------------------------------------------

Obj(op, args, params) == [op |-> op, args |-> args, params |-> params]

\* -1, 0 or 1 as the centre (i + 1/2) * d of cell i lies below, at or above the
\* coordinate c, compared exactly.
CentreCmp(i, d, c) ==
    LET e == Min(d.e - 1, c.e)
    IN  BigCmp(BigShl(BigMulSmall(d.m, 2 * i + 1), d.e - 1 - e), BigShl(c.m, c.e - e))

\* The first cell of lo..hi-1 whose centre is at least c (above c when strict),
\* hi when there is none.
RECURSIVE FirstCell(_, _, _, _, _)
FirstCell(c, d, strict, lo, hi) ==
    IF lo >= hi THEN hi
    ELSE LET mid == (lo + hi) \div 2
         IN  IF CentreCmp(mid, d, c) >= (IF strict THEN 1 ELSE 0)
             THEN FirstCell(c, d, strict, lo, mid)
             ELSE FirstCell(c, d, strict, mid + 1, hi)

\* geometry @ grid: the cells of the centered grid whose centres lie inside the
\* Box b, as a range <<first, last>> of cell indices (from 0) on each axis.
\* The edges of pressure_box lie half a cell from the nearest centres.
MaskCells(b) ==
    [x |-> <<FirstCell(b.lower[1], dx, FALSE, 0, resolution[1]),
             FirstCell(b.upper[1], dx, TRUE, 0, resolution[1]) - 1>>,
     y |-> <<FirstCell(b.lower[2], dy, FALSE, 0, resolution[2]),
             FirstCell(b.upper[2], dy, TRUE, 0, resolution[2]) - 1>>]

\* Box['x,y', 50 * dx:100 * dx, 50 * dy:length_y - 49 * dy]
PressureBox ==
    [lower |-> <<FMulNat(50, dx), FMulNat(50, dy)>>,
     upper |-> <<FMulNat(100, dx), FSub(length_y, FMulNat(49, dy))>>]

\* pressure_box @ inflow_grid
MaskObj(b, grid) ==
    [op |-> "resample", args |-> <<grid>>, params |-> <<>>, box |-> b,
     cells |-> MaskCells(b)]

\* Solve(rel_tol=1e-05, abs_tol=1e-05, max_iterations=100_000)
StepSolve == <<FOfRatio(1, 100000), FOfRatio(1, 100000), 100000>>

\* fluid.make_incompressible(v, swarm, solve): the two objects it returns.
MakeIncompressible(v, solve) ==
    <<Obj("make_incompressible.velocity", <<v>>, solve),
      Obj("make_incompressible.pressure", <<v>>, solve)>>

\* Lines 68-87: the zero velocity, the zero inflow grid, the inflow box, its
\* mask on the grid (reference 3), the mask times the unit x vector, and the
\* staggered inflow field.
BuildFields ==
    /\ pc = "fields"
    /\ pressure_box' = PressureBox
    /\ heap' = << Obj("StaggeredGrid", <<>>, <<0>>),
                  Obj("CenteredGrid", <<>>, <<0>>),
                  MaskObj(PressureBox, 2),
                  Obj("mul", <<3>>, <<1, 0>>),
                  Obj("StaggeredGrid", <<4>>, <<>>) >>
    /\ velocity' = 1
    /\ inflow' = 5
    /\ pc' = "project"
    /\ UNCHANGED <<config_vars, swarm_vars, pressure, fs_vars, loop_vars>>

\* Line 88: the initial-condition projection, with the default Solve.
InitialProjection ==
    /\ pc = "project"
    /\ heap' = heap \o MakeIncompressible(velocity, <<>>)
    /\ velocity' = Len(heap) + 1
    /\ pressure' = Len(heap) + 2
    /\ pc' = "mkdirs"
    /\ UNCHANGED <<config_vars, swarm_vars, inflow, pressure_box, fs_vars, loop_vars>>

\* ------------------------------------------------------------------------
\* Run directory and configuration file (lines 91-107)
\* ------------------------------------------------------------------------

\* Lines 91-95: the run directory is named after the clock, and made with its
\* three subdirectories.
MakeDirs ==
    /\ pc = "mkdirs"
    /\ \E now \in 0..MaxClock :
          /\ folder_name' = now
          /\ dirs' = dirs \cup {[run |-> now, dir |-> d] :
                                   d \in {"", "velocity", "pressure", "figures"}}
    /\ pc' = "configuration"
    /\ UNCHANGED <<config_vars, swarm_vars, field_vars, files, configuration, loop_vars>>

\* Lines 96-107.
WriteConfiguration ==
    /\ pc = "configuration"
    /\ configuration' = << <<"length_x", length_x>>, <<"length_y", length_y>>,
                           <<"resolution", resolution>>,
                           <<"swarm_num_x", swarm_num_x>>, <<"swarm_num_y", swarm_num_y>>,
                           <<"swarm_member_rad", swarm_member_rad>>,
                           <<"inflow_freq", inflow_freq>>,
                           <<"inflow_amplitude", inflow_amplitude>>,
                           <<"viscosity", viscosity>>, <<"dt", dt>>,
                           <<"total_time", total_time>> >>
    /\ pc' = "loop"
    /\ UNCHANGED <<config_vars, swarm_vars, field_vars, folder_name, dirs, files, loop_vars>>

\* ------------------------------------------------------------------------
\* Formatting of the elapsed time in file names
\* ------------------------------------------------------------------------

Digit(n) == <<"0", "1", "2", "3", "4", "5", "6", "7", "8", "9">>[n + 1]

RECURSIVE DecimalDigits(_)
DecimalDigits(n) ==
    IF n < 10 THEN <<Digit(n)>> ELSE Append(DecimalDigits(n \div 10), Digit(n % 10))

\* format(x, '.<prec>f'): x times 10^prec rounded to the nearest integer, ties
\* to even, written with prec digits after the point.
FormatFixed(x, prec) ==
    LET scaled == BigMulSmall(x.m, 10^prec)
        n      == NatOfBig(IF x.e >= 0 THEN BigShl(scaled, x.e)
                                       ELSE BigShrRound(scaled, -x.e))
    IN  DecimalDigits(n \div 10^prec)
        \o (IF prec = 0 THEN <<>> ELSE <<".">>)
        \o [k \in 1..prec |-> Digit((n \div 10^(prec - k)) % 10)]

\* Mutants of ElapsedName: the formats '.2f' and '.1f'.
ElapsedNameTwoDigits(k) == FormatFixed(FMulNat(k, dt), 2)

ElapsedNameOneDigit(k) == FormatFixed(FMulNat(k, dt), 1)

\* f'{time_step * dt:.3f}'
ElapsedName(k) == FormatFixed(FMulNat(k, dt), 3)

\* A file written at a path replaces the file that was there.
WriteFile(fs, run, dir, name, data) ==
    {f \in fs : ~(f.run = run /\ f.dir = dir /\ f.name = name)}
    \cup {[run |-> run, dir |-> dir, name |-> name, data |-> data]}

Event(ev, k, t, data, name) == [ev |-> ev, k |-> k, t |-> t, data |-> data, name |-> name]

\* ------------------------------------------------------------------------
\* The run loop and the time-step operator (lines 42-49 and 109-133)
\* ------------------------------------------------------------------------

\* A library call of step: its arguments and results are references into heap.
LibCall(op, args, obstacles, out) ==
    [op |-> op, args |-> args, obstacles |-> obstacles, out |-> out]

Alloc(h, objs) == h \o objs

\* Lines 109-112: the loop takes the next time_step of range(total_time) and
\* calls step(velocity, inflow, inflow_amplitude, inflow_freq, dt, time_step * dt).
\* Mutants of HasNext and Exhausted: range(total_time + 1), and a loop that
\* may end one step early.
HasNextInclusive == range_next <= total_time

ExhaustedEarly == range_next >= total_time - 1

\* range(total_time) has a next value, or is exhausted.
HasNext == range_next < total_time

Exhausted == range_next >= total_time

ForNext ==
    /\ pc = "loop"
    /\ HasNext
    /\ time_step' = range_next
    /\ range_next' = range_next + 1
    /\ frame' = [velocity_prev |-> velocity, inflow |-> inflow,
                 inflow_amplitude |-> inflow_amplitude, inflow_freq |-> inflow_freq,
                 dt |-> dt, t |-> FMulNat(range_next, dt),
                 advected |-> 0, velocity_tent |-> 0, velocity_next |-> 0,
                 pressure |-> 0]
    /\ lib_calls' = <<>>
    /\ events' = Append(events, Event("call", range_next, FMulNat(range_next, dt),
                                      <<velocity, inflow>>, <<>>))
    /\ pc' = "advect"
    /\ UNCHANGED <<config_vars, swarm_vars, field_vars, fs_vars>>

\* Line 109: range(total_time) is exhausted.
ForEnd ==
    /\ pc = "loop"
    /\ Exhausted
    /\ pc' = "done"
    /\ UNCHANGED <<config_vars, swarm_vars, field_vars, fs_vars, loop_vars>>

\* Mutant of StepAdvect: the inflow field is advected too (line 43 enabled),
\* so that step returns another inflow field than it was given.
StepAdvectInflowToo ==
    /\ pc = "advect"
    /\ heap' = Alloc(heap, <<Obj("advect.mac_cormack",
                                 <<frame.inflow, frame.velocity_prev>>, <<frame.dt>>),
                             Obj("advect.semi_lagrangian",
                                 <<frame.velocity_prev, frame.velocity_prev>>,
                                 <<frame.dt>>)>>)
    /\ frame' = [frame EXCEPT !.inflow = Len(heap) + 1, !.advected = Len(heap) + 2]
    /\ lib_calls' = Append(lib_calls,
                           LibCall("advect.semi_lagrangian",
                                   <<frame.velocity_prev, frame.velocity_prev>>, <<>>,
                                   <<Len(heap) + 2>>))
    /\ pc' = "source"
    /\ UNCHANGED <<config_vars, swarm_vars, velocity, pressure, inflow, pressure_box,
                   fs_vars, time_step, range_next, events>>

\* Line 44, left operand: advect.semi_lagrangian(velocity_prev, velocity_prev, dt)
StepAdvect ==
    /\ pc = "advect"
    /\ heap' = Alloc(heap, <<Obj("advect.semi_lagrangian",
                                 <<frame.velocity_prev, frame.velocity_prev>>,
                                 <<frame.dt>>)>>)
    /\ frame' = [frame EXCEPT !.advected = Len(heap) + 1]
    /\ lib_calls' = Append(lib_calls,
                           LibCall("advect.semi_lagrangian",
                                   <<frame.velocity_prev, frame.velocity_prev>>, <<>>,
                                   <<Len(heap) + 1>>))
    /\ pc' = "source"
    /\ UNCHANGED <<config_vars, swarm_vars, velocity, pressure, inflow, pressure_box,
                   fs_vars, time_step, range_next, events>>

\* Line 44, the rest: velocity_tent = <advected> + inflow_amplitude * inflow
StepSource ==
    /\ pc = "source"
    /\ heap' = Alloc(heap, <<Obj("mul", <<frame.inflow>>, <<frame.inflow_amplitude>>),
                             Obj("add", <<frame.advected, Len(heap) + 1>>, <<>>)>>)
    /\ frame' = [frame EXCEPT !.velocity_tent = Len(heap) + 2]
    /\ lib_calls' = Append(lib_calls,
                           LibCall("add_source", <<frame.advected, frame.inflow>>, <<>>,
                                   <<Len(heap) + 2>>))
    /\ pc' = "diffuse"
    /\ UNCHANGED <<config_vars, swarm_vars, velocity, pressure, inflow, pressure_box,
                   fs_vars, time_step, range_next, events>>

\* Mutant of StepDiffuse: the diffusion is skipped.
StepDiffuseSkipped ==
    /\ pc = "diffuse"
    /\ pc' = "incompressible"
    /\ UNCHANGED <<config_vars, swarm_vars, field_vars, fs_vars, loop_vars>>

\* Line 46: velocity_tent = diffuse.explicit(velocity_tent, viscosity, dt, substeps=10_000)
StepDiffuse ==
    /\ pc = "diffuse"
    /\ heap' = Alloc(heap, <<Obj("diffuse.explicit", <<frame.velocity_tent>>,
                                 <<viscosity, frame.dt, 10000>>)>>)
    /\ frame' = [frame EXCEPT !.velocity_tent = Len(heap) + 1]
    /\ lib_calls' = Append(lib_calls,
                           LibCall("diffuse.explicit", <<frame.velocity_tent>>, <<>>,
                                   <<Len(heap) + 1>>))
    /\ pc' = "incompressible"
    /\ UNCHANGED <<config_vars, swarm_vars, velocity, pressure, inflow, pressure_box,
                   fs_vars, time_step, range_next, events>>

\* Mutant of StepProject: the solve starts from the pressure of the step
\* before (Solve(..., x0=pressure)).
StepProjectFromPressure ==
    /\ pc = "incompressible"
    /\ heap' = Alloc(heap,
                     <<Obj("make_incompressible.velocity",
                           <<frame.velocity_tent, pressure>>, StepSolve),
                       Obj("make_incompressible.pressure",
                           <<frame.velocity_tent, pressure>>, StepSolve)>>)
    /\ frame' = [frame EXCEPT !.velocity_next = Len(heap) + 1,
                              !.pressure = Len(heap) + 2]
    /\ lib_calls' = Append(lib_calls,
                           LibCall("fluid.make_incompressible",
                                   <<frame.velocity_tent>>, swarm,
                                   <<Len(heap) + 1, Len(heap) + 2>>))
    /\ pc' = "return"
    /\ UNCHANGED <<config_vars, swarm_vars, velocity, pressure, inflow, pressure_box,
                   fs_vars, time_step, range_next, events>>

\* Lines 47-48: velocity_next, pressure = fluid.make_incompressible(velocity_tent, swarm, Solve(...))
StepProject ==
    /\ pc = "incompressible"
    /\ heap' = Alloc(heap, MakeIncompressible(frame.velocity_tent, StepSolve))
    /\ frame' = [frame EXCEPT !.velocity_next = Len(heap) + 1,
                              !.pressure = Len(heap) + 2]
    /\ lib_calls' = Append(lib_calls,
                           LibCall("fluid.make_incompressible",
                                   <<frame.velocity_tent>>, swarm,
                                   <<Len(heap) + 1, Len(heap) + 2>>))
    /\ pc' = "return"
    /\ UNCHANGED <<config_vars, swarm_vars, velocity, pressure, inflow, pressure_box,
                   fs_vars, time_step, range_next, events>>

\* Line 49 and the assignment of line 112:
\* velocity, pressure, inflow = (velocity_next, pressure, inflow)
StepReturn ==
    /\ pc = "return"
    /\ velocity' = frame.velocity_next
    /\ pressure' = frame.pressure
    /\ inflow' = frame.inflow
    /\ events' = Append(events, Event("return", time_step, FZero,
                                      <<frame.velocity_next, frame.pressure, frame.inflow>>,
                                      <<>>))
    /\ pc' = "plot"
    /\ UNCHANGED <<config_vars, swarm_vars, heap, pressure_box, fs_vars, time_step,
                   range_next, frame, lib_calls>>

\* Lines 114-131: the three panels (velocity x, velocity y, pressure), each
\* with the patch of pressure_box, saved as one figure.
SaveFigure ==
    /\ pc = "plot"
    /\ LET name == <<"timestep_">> \o ElapsedName(time_step) \o <<".jpg">>
       IN  /\ files' = WriteFile(files, folder_name, "figures", name,
                                 <<velocity, velocity, pressure>>)
           /\ events' = Append(events, Event("figure", time_step, FZero,
                                             <<velocity, velocity, pressure>>, name))
    /\ pc' = "write_velocity"
    /\ UNCHANGED <<config_vars, swarm_vars, field_vars, folder_name, dirs, configuration,
                   time_step, range_next, frame, lib_calls>>

\* Line 132: phi.field.write(velocity, f'./run_{folder_name}/velocity/{time_step * dt:.3f}')
WriteVelocity ==
    /\ pc = "write_velocity"
    /\ LET name == ElapsedName(time_step)
       IN  /\ files' = WriteFile(files, folder_name, "velocity", name, <<velocity>>)
           /\ events' = Append(events, Event("velocity", time_step, FZero,
                                             <<velocity>>, name))
    /\ pc' = "write_pressure"
    /\ UNCHANGED <<config_vars, swarm_vars, field_vars, folder_name, dirs, configuration,
                   time_step, range_next, frame, lib_calls>>

\* Mutant of WritePressure: the velocity is written in the place of the pressure.
WritePressureOfVelocity ==
    /\ pc = "write_pressure"
    /\ LET name == ElapsedName(time_step)
       IN  /\ files' = WriteFile(files, folder_name, "pressure", name, <<velocity>>)
           /\ events' = Append(events, Event("pressure", time_step, FZero,
                                             <<velocity>>, name))
    /\ pc' = "loop"
    /\ UNCHANGED <<config_vars, swarm_vars, field_vars, folder_name, dirs, configuration,
                   time_step, range_next, frame, lib_calls>>

\* Line 133: phi.field.write(pressure, f'./run_{folder_name}/pressure/{time_step * dt:.3f}')
WritePressure ==
    /\ pc = "write_pressure"
    /\ LET name == ElapsedName(time_step)
       IN  /\ files' = WriteFile(files, folder_name, "pressure", name, <<pressure>>)
           /\ events' = Append(events, Event("pressure", time_step, FZero,
                                             <<pressure>>, name))
    /\ pc' = "loop"
    /\ UNCHANGED <<config_vars, swarm_vars, field_vars, folder_name, dirs, configuration,
                   time_step, range_next, frame, lib_calls>>

\* ------------------------------------------------------------------------
\* Specifications
\* ------------------------------------------------------------------------

\* The script with its own swarm size, for every total_time up to MaxTotalTime.
Init == \E tt \in 0..MaxTotalTime : InitWith(SWARM_NUM_X, SWARM_NUM_Y, tt)

Next ==
    \/ SwarmBegin \/ SwarmOuter \/ SwarmInner
    \/ BuildFields \/ InitialProjection
    \/ MakeDirs \/ WriteConfiguration
    \/ ForNext \/ ForEnd
    \/ StepAdvect \/ StepSource \/ StepDiffuse \/ StepProject \/ StepReturn
    \/ SaveFigure \/ WriteVelocity \/ WritePressure

Spec == Init /\ [][Next]_vars

\* ------------------------------------------------------------------------
\* Properties
\* ------------------------------------------------------------------------

\* The positions of the script inside a call of step, and after a call has
\* returned and before the next starts.
InStep == pc \in {"advect", "source", "diffuse", "incompressible", "return"}

AfterStep == pc \in {"plot", "write_velocity", "write_pressure"}
             \/ (pc \in {"loop", "done"} /\ range_next > 0)

FieldsBuilt == pc \notin {"start", "swarm_x", "swarm_y", "fields"}

\* The object at reference id written out as a term over the references in
\* leaves: what the object was computed from.
Leaf(id) == Obj("ref", <<>>, <<id>>)

RECURSIVE Term(_, _)
Term(id, leaves) ==
    IF id \in leaves THEN Leaf(id)
    ELSE [heap[id] EXCEPT !.args = [n \in DOMAIN @ |-> Term(@[n], leaves)]]

\* The library calls of one call of step, in order.
StepOps == <<"advect.semi_lagrangian", "add_source", "diffuse.explicit",
             "fluid.make_incompressible">>

CallsMade ==
    CASE pc = "advect" -> 0
      [] pc = "source" -> 1
      [] pc = "diffuse" -> 2
      [] pc = "incompressible" -> 3
      [] OTHER -> 4

\* C1: in every call of step the library operations happen in the order
\* advection of velocity_prev by itself, injection of inflow_amplitude * inflow
\* into the advected field, explicit diffusion of the result, projection of the
\* diffused field against the swarm, none skipped or repeated; and the
\* velocity and pressure the call returns are the two outputs of the projection.
C1_StepOrder ==
    (InStep \/ AfterStep) =>
        /\ Len(lib_calls) = CallsMade
        /\ \A n \in 1..Len(lib_calls) : lib_calls[n].op = StepOps[n]
        /\ Len(lib_calls) >= 1 =>
              /\ lib_calls[1].args = <<frame.velocity_prev, frame.velocity_prev>>
              /\ heap[lib_calls[1].out[1]] =
                    Obj("advect.semi_lagrangian", lib_calls[1].args, <<dt>>)
        /\ Len(lib_calls) >= 2 =>
              /\ lib_calls[2].args = <<lib_calls[1].out[1], frame.inflow>>
              /\ LET sum == heap[lib_calls[2].out[1]]
                 IN  /\ sum.op = "add"
                     /\ sum.args[1] = lib_calls[1].out[1]
                     /\ heap[sum.args[2]] =
                           Obj("mul", <<frame.inflow>>, <<inflow_amplitude>>)
        /\ Len(lib_calls) >= 3 =>
              /\ lib_calls[3].args = lib_calls[2].out
              /\ heap[lib_calls[3].out[1]] =
                    Obj("diffuse.explicit", lib_calls[3].args, <<viscosity, dt, 10000>>)
        /\ Len(lib_calls) >= 4 =>
              /\ lib_calls[4].args = lib_calls[3].out
              /\ lib_calls[4].obstacles = swarm
              /\ heap[lib_calls[4].out[1]] =
                    Obj("make_incompressible.velocity", lib_calls[4].args, StepSolve)
              /\ heap[lib_calls[4].out[2]] =
                    Obj("make_incompressible.pressure", lib_calls[4].args, StepSolve)
              /\ lib_calls[4].out = <<frame.velocity_next, frame.pressure>>
        /\ AfterStep => <<velocity, pressure>> = lib_calls[4].out

C1_Witness == pc = "plot" /\ time_step = 1 /\ Len(lib_calls) = 4

\* The calls of step made so far.
StepCalls == SelectSeq(events, LAMBDA ev : ev.ev = "call")

StepCallsAreExactly(n) ==
    /\ Len(StepCalls) = n
    /\ \A k \in 1..n : StepCalls[k].k = k - 1 /\ StepCalls[k].t = FMulNat(k - 1, dt)

\* The number of steps the script has left: the rest of the swarm loops, the
\* four steps from the fields to the configuration file, nine steps for each
\* time step to come, and the end of the loop.
StepsLeftInLoop ==
    9 * (total_time - range_next) + 1
    + CASE pc = "advect" -> 8
        [] pc = "source" -> 7
        [] pc = "diffuse" -> 6
        [] pc = "incompressible" -> 5
        [] pc = "return" -> 4
        [] pc = "plot" -> 3
        [] pc = "write_velocity" -> 2
        [] pc = "write_pressure" -> 1
        [] OTHER -> 0

StepsLeft ==
    CASE pc = "done" -> 0
      [] pc = "start" -> StepsLeftInLoop + 6 + swarm_num_x * (swarm_num_y + 2)
      [] pc = "swarm_x" ->
            StepsLeftInLoop + 5 + (swarm_num_x - x_iter) * (swarm_num_y + 2)
      [] pc = "swarm_y" ->
            StepsLeftInLoop + 5 + (swarm_num_x - x_iter) * (swarm_num_y + 2)
            + (swarm_num_y - y_iter) + 1
      [] pc = "fields" -> StepsLeftInLoop + 4
      [] pc = "project" -> StepsLeftInLoop + 3
      [] pc = "mkdirs" -> StepsLeftInLoop + 2
      [] pc = "configuration" -> StepsLeftInLoop + 1
      [] OTHER -> StepsLeftInLoop

\* Every position but the end of the script has a next step: each statement
\* runs (no operation fails), and the loop either has a next value or ends.
HasStep == pc # "done" /\ (pc = "loop" => HasNext \/ Exhausted)

\* C2: the run terminates after calling step exactly total_time times, for
\* step_index 0, 1, ..., total_time - 1 in this order, each with t = step_index
\* * dt.  Termination: the script is never stuck before its end, and every
\* step it takes brings it one step closer to the end; the calls: those made
\* so far are the calls of 0 .. range_next - 1, and at the end range_next is
\* total_time.
C2_Terminates ==
    /\ [](/\ StepsLeft >= 0
          /\ StepsLeft > 0 => HasStep
          /\ range_next <= total_time
          /\ StepCallsAreExactly(range_next)
          /\ pc = "done" => StepCallsAreExactly(total_time))
    /\ [][StepsLeft' = StepsLeft - 1]_vars

C2_Witness == pc = "done" /\ total_time = MaxTotalTime /\ Len(StepCalls) = MaxTotalTime

\* The events of one step, in order.
StepEvents == <<"call", "return", "figure", "velocity", "pressure">>

\* The directory each event of a step writes to.
WrittenDir == <<"", "", "figures", "velocity", "pressure">>

\* C3: the events of the run are, step after step, the call of step k, its
\* return, the figure of k, the velocity snapshot of k and the pressure
\* snapshot of k, each once; what is drawn and written for k is the velocity
\* and pressure the call of index k returned, and is what the file holds.
C3_StepCompletes ==
    \A n \in 1..Len(events) :
        LET k    == (n - 1) \div 5
            part == ((n - 1) % 5) + 1
            ret  == events[5 * k + 2].data
        IN  /\ events[n].ev = StepEvents[part]
            /\ events[n].k = k
            /\ part = 3 => events[n].data = <<ret[1], ret[1], ret[2]>>
            /\ part = 4 => events[n].data = <<ret[1]>>
            /\ part = 5 => events[n].data = <<ret[2]>>
            /\ part >= 3 =>
                  [run |-> folder_name, dir |-> WrittenDir[part],
                   name |-> events[n].name, data |-> events[n].data] \in files

C3_Witness == Len(events) = 10 /\ pc = "loop"

\* C4: with total_time = 0 step is never called and no figure, velocity or
\* pressure file is written; the run ends holding the velocity and pressure of
\* the initial projection of the zero velocity field.
C4_ZeroSteps ==
    total_time = 0 =>
        /\ events = <<>> /\ lib_calls = <<>> /\ files = {}
        /\ pc = "done" =>
              /\ Term(velocity, {}) =
                    Obj("make_incompressible.velocity",
                        <<Obj("StaggeredGrid", <<>>, <<0>>)>>, <<>>)
              /\ Term(pressure, {}) =
                    Obj("make_incompressible.pressure",
                        <<Obj("StaggeredGrid", <<>>, <<0>>)>>, <<>>)

C4_Witness == total_time = 0 /\ pc = "done"

\* What one call of step computes from velocity_prev (v) and the inflow field (f).
DiffusedTerm(v, f) ==
    Obj("diffuse.explicit",
        <<Obj("add", <<Obj("advect.semi_lagrangian", <<Leaf(v), Leaf(v)>>, <<dt>>),
                       Obj("mul", <<Leaf(f)>>, <<inflow_amplitude>>)>>, <<>>)>>,
        <<viscosity, dt, 10000>>)

\* C5: the velocity and pressure held after a call of step are computed from
\* the velocity and inflow passed to the call and the run constants alone: the
\* pressure held before the call is no part of them.
C5_PressureNotReused ==
    AfterStep =>
        LET v == frame.velocity_prev
            f == frame.inflow
        IN  /\ Term(velocity, {v, f}) =
                  Obj("make_incompressible.velocity", <<DiffusedTerm(v, f)>>, StepSolve)
            /\ Term(pressure, {v, f}) =
                  Obj("make_incompressible.pressure", <<DiffusedTerm(v, f)>>, StepSolve)

C5_Witness == pc = "plot" /\ time_step = 2

\* The inflow field as lines 71-85 build it.
PressureBoxCells == MaskCells(PressureBox)

BuiltInflowTerm ==
    Obj("StaggeredGrid",
        <<Obj("mul",
              <<[op |-> "resample", args |-> <<Obj("CenteredGrid", <<>>, <<0>>)>>,
                 params |-> <<>>, box |-> PressureBox, cells |-> PressureBoxCells]>>,
              <<1, 0>>)>>,
        <<>>)

\* C6: a call of step returns the inflow field it was given, and the inflow
\* field the run holds is at every step the field built before the loop, whose
\* nonzero cells are those of pressure_box.
C6_InflowUnchanged ==
    /\ \A n \in 1..Len(events) :
          events[n].ev = "return" => events[n].data[3] = events[n - 1].data[2]
    /\ FieldsBuilt =>
          /\ Term(inflow, {}) = BuiltInflowTerm
          /\ pressure_box = PressureBox

C6_Witness == pc = "loop" /\ range_next = 3

\* C7: the swarm holds swarm_num_x * swarm_num_y obstacles of radius
\* swarm_member_rad, obstacle (a, b) at place (a - 1) * swarm_num_y + b (x
\* outer, y inner), every x in [35, 38] and every y strictly in (0, length_y).
C7_Swarm ==
    pc = "fields" =>
        /\ Len(swarm) = swarm_num_x * swarm_num_y
        /\ Len(xs) = swarm_num_x /\ Len(ys) = swarm_num_y
        /\ \A a \in 1..swarm_num_x : \A b \in 1..swarm_num_y :
              LET o == swarm[(a - 1) * swarm_num_y + b]
              IN  /\ o.x = xs[a] /\ o.y = ys[b]
                  /\ o.radius = swarm_member_rad
                  /\ FLeq(FOfNat(35), o.x) /\ FLeq(o.x, FOfNat(38))
                  /\ FLess(FZero, o.y) /\ FLess(o.y, length_y)

C7_Witness == pc = "fields" /\ swarm_num_x = 3 /\ swarm_num_y = 4 /\ Len(swarm) = 12

\* The cells of the inflow mask (reference 3).
InflowCells == heap[3].cells

\* C8: the inflow rectangle starts 50 cells from the left edge, is 50 cells
\* wide, and leaves 49 cells below it and 49 cells above it.
C8_InflowBoxMargins ==
    FieldsBuilt =>
        /\ InflowCells.x[1] = 50
        /\ InflowCells.x[2] - InflowCells.x[1] + 1 = 50
        /\ InflowCells.y[1] = 49
        /\ resolution[2] - 1 - InflowCells.y[2] = 49

\* The name of k * 50 thousandths of a second, by integer arithmetic.
ThousandthsName(n) ==
    DecimalDigits(n \div 1000) \o <<".">>
    \o <<Digit((n \div 100) % 10), Digit((n \div 10) % 10), Digit(n % 10)>>

\* C9: the elapsed time in the names of the figure, the velocity file and the
\* pressure file of step k is k * 0.05 with exactly 3 digits after the point
\* (0.350 for step 7), the same in the three names.
C9_ElapsedNames ==
    \A n \in 1..Len(events) :
        LET e == events[n]
        IN  /\ e.ev = "figure" =>
                  e.name = <<"timestep_">> \o ThousandthsName(50 * e.k) \o <<".jpg">>
            /\ e.ev \in {"velocity", "pressure"} =>
                  /\ e.name = ThousandthsName(50 * e.k)
                  /\ e.name[Len(e.name) - 3] = "."
            /\ (e.ev = "figure" /\ e.k = 7) =>
                  e.name = <<"timestep_", "0", ".", "3", "5", "0", ".jpg">>

C9_Witness ==
    /\ pc = "done" /\ total_time = 50
    /\ \E f \in files : f.dir = "pressure" /\ f.name = <<"2", ".", "4", "5", "0">>

\* C10: after k completed steps each of the three output directories of the
\* run directory holds exactly k files, and every file is under the run
\* directory named at line 91.
C10_NoOverwrite ==
    /\ pc \in {"loop", "done"} =>
          \A d \in {"figures", "velocity", "pressure"} :
              Cardinality({f \in files : f.dir = d}) = range_next
    /\ \A f \in files :
          /\ f.run = folder_name
          /\ [run |-> f.run, dir |-> f.dir] \in dirs

C10_Witness == pc = "loop" /\ range_next = 50 /\ Cardinality(files) = 150

====
